---- MODULE Spec2Model ----
(***************************************************************************)
(* State-machine model of the e-paper METAR display process:               *)
(*   src/metar_main.py    configuration, main(), the render loop and its   *)
(*                        exception handlers                               *)
(*   src/metar_layouts.py cycle_layout, random_layout, layout_wind         *)
(* Strings the code parses character by character are sequences of         *)
(* one-character strings.  Calls into collaborators that are not part of   *)
(* the two source files (Metar, get_rawOb, decode_*, the display driver,   *)
(* PIL) are inputs drawn with \E: what they return, or that they raise.    *)
(***************************************************************************)
EXTENDS Integers, Sequences, FiniteSets, TLC

\* ------------------------------------------------------------------ bounds
\* Largest number of routines in layout_list that is explored.
MaxLayouts == 3
\* Largest number of cycle_layout calls that is explored (caps the counters).
MaxCalls == 4
\* Longest digit string explored as a wind direction by SpecWind.
MaxDirLen == 3

\* --------------------------------------------------------- string helpers
DigitChars == <<"0", "1", "2", "3", "4", "5", "6", "7", "8", "9">>

IsDigitChar(c) == \E i \in 1..10 : DigitChars[i] = c

DigitVal(c) == (CHOOSE i \in 1..10 : DigitChars[i] = c) - 1

\* str.isdigit(): non-empty and every character a digit.
isdigit(s) == Len(s) > 0 /\ \A i \in 1..Len(s) : IsDigitChar(s[i])

\* int(s) for a digit string s.
RECURSIVE IntOf(_)
IntOf(s) ==
    IF Len(s) = 0 THEN 0
    ELSE 10 * IntOf(SubSeq(s, 1, Len(s) - 1)) + DigitVal(s[Len(s)])

\* All digit strings of length 1..n.
RECURSIVE DigitStrings(_)
DigitStrings(n) ==
    IF n = 0 THEN {}
    ELSE DigitStrings(n - 1) \cup [1..n -> {DigitChars[i] : i \in 1..10}]

Calm == <<"C", "a", "l", "m">>
VRB == <<"V", "R", "B">>
NA == <<"n", "a">>

\* ------------------------------------------------------------------ state
VARIABLES
    argc,                   \* len(sys.argv)
    layout_list,            \* the routine list, as routine ids 0..M-1
    use_disp_format,        \* selector: index, -1 random, -2 cycle
    interval,               \* interval override, 0 = by flight category
    preferred_layouts,      \* preferred list as given (a string)
    use_preferred,          \* the flag main() passes to cycle_layout
    settings_use_preferred, \* use_preferred as set in metar_settings.py
    pc,                     \* position of the process
    epd_bound,              \* the name epd is bound (EPD() returned)
    cycle_num,              \* metar_layouts.cycle_num
    pref_cycle,             \* metar_layouts.pref_cycle
    metar,                  \* the report object of the cycle in progress
    flightcategory,         \* flightcategory of the cycle in progress
    canvas,                 \* draw operations on the cycle's Limage, in order
    sleeping_for,           \* argument of the time.sleep call in progress
    display_asleep,         \* epd.sleep() was called
    module_exited,          \* epdconfig.module_exit(cleanup=True) was called
    attempted,              \* history: the cleanup calls made, returned or not
    exit_how,               \* how the process ended, "" while it runs
    calls,                  \* history: number of cycle_layout calls so far
    returned,               \* history: those whose routine returned normally
    lastSel,                \* history: outcome of the last selection call
    lastPick,               \* history: routine the last selection invoked, -1 if none
    lastPos,                \* history: preferred position the last call used, -1 if none
    routinesRun,            \* history: routines started in the current cycle
    caught,                 \* history: the step whose exception is being handled, "" if none
    screen                  \* what the last display_4Gray call showed

cfgVars == <<argc, layout_list, use_disp_format, interval, preferred_layouts,
             use_preferred, settings_use_preferred>>
histVars == <<calls, returned, lastSel, lastPick, lastPos, routinesRun, caught>>
exitVars == <<display_asleep, module_exited, attempted, exit_how>>
vars == <<argc, layout_list, use_disp_format, interval, preferred_layouts,
          use_preferred, settings_use_preferred, pc, epd_bound, cycle_num,
          pref_cycle, metar, flightcategory, canvas, sleeping_for,
          display_asleep, module_exited, attempted, exit_how, calls, returned,
          lastSel,
          lastPick, lastPos, routinesRun, caught, screen>>

\* ------------------------------------------------------------ the canvas
\* One drawing call on the cycle's image: who made it, what it drew, and the
\* one number that tells calls of the same kind apart (0 when there is none).
Op(by, name, arg) == [by |-> by, op |-> name, arg |-> arg]

\* -------------------------------------------------- layout_wind: geometry
runway_number == 18
VISUALIZATION_Y == 170
runway_length == 55
dash_length == 6
gap_length == 4
ThresholdOffsets == <<-25, -18, -11, -4, 4, 11, 18, 25>>

runway_base_y == VISUALIZATION_Y + 35

dash_y_start == runway_base_y - (runway_length \div 2) + gap_length

runway_heading == runway_number * 10

\* while relative_angle_deg > 180: relative_angle_deg -= 360
RECURSIVE NormDown(_)
NormDown(r) == IF r > 180 THEN NormDown(r - 360) ELSE r

\* A slip in the second loop's bound: < instead of <=.
RECURSIVE NormUpStrict(_)
NormUpStrict(r) == IF r < -180 THEN NormUpStrict(r + 360) ELSE r

\* while relative_angle_deg <= -180: relative_angle_deg += 360
RECURSIVE NormUp(_)
NormUp(r) == IF r <= -180 THEN NormUp(r + 360) ELSE r

\* relative_angle_deg after both loops, for the parsed wind direction d.
RelativeAngle(d) == NormUp(NormDown(d - runway_heading))

\* int(decoded_wndir) if decoded_wndir and decoded_wndir.isdigit() else 0
WindDirection(s) == IF Len(s) > 0 /\ isdigit(s) THEN IntOf(s) ELSE 0

\* float(decoded_wnspd) if decoded_wnspd and decoded_wnspd != "Calm" else 0,
\* and 0 when float() raises.  Of the strings explored only digit strings
\* are numbers to float().
WindSpeed(s) ==
    IF Len(s) > 0 /\ s # Calm
    THEN (IF isdigit(s) THEN IntOf(s) ELSE 0)
    ELSE 0

\* if wind_speed > 0:
ArrowDrawn(speed) == speed > 0

\* The two arrow polygons, shaft first, rotated by the relative angle.
ArrowOps(direction) ==
    <<Op("routine", "arrow_shaft", RelativeAngle(direction)),
      Op("routine", "arrow_head", RelativeAngle(direction))>>

\* while current_y < y_start + 16: draw.line(...); current_y += dash + gap
RECURSIVE DashOps(_)
DashOps(current_y) ==
    IF current_y < dash_y_start + 16
    THEN <<Op("routine", "centerline_dash", current_y)>>
         \o DashOps(current_y + dash_length + gap_length)
    ELSE <<>>

\* for x_offset in [-25, ..., 25]: draw.line(...)
TickOps ==
    [i \in 1..Len(ThresholdOffsets) |->
        Op("routine", "threshold_tick", ThresholdOffsets[i])]

\* The runway trapezoid, then its markings and number.
RunwayOps ==
    <<Op("routine", "runway_polygon", 0)>> \o DashOps(dash_y_start)
    \o <<Op("routine", "runway_number", runway_number)>> \o TickOps

\* ---------------------------------------------------- layout_wind: whole
\* The report object: has_data is the truth of metar.data, raw what
\* get_rawOb gives ("text", "na" for the string 'n/a', "empty"), wndir and
\* wnspd what decode_rawmessage gives for it, category what flight_category
\* gives for it.
Report(has_data, raw, wndir, wnspd, category) ==
    [has_data |-> has_data, raw |-> raw, wndir |-> wndir, wnspd |-> wnspd,
     category |-> category]

\* The path the try block of layout_wind takes: "invalid" (early return),
\* "no_text", "decode_fail" (the except branch) or "decoded".
WindPath(m, decodeFails) ==
    IF ~m.has_data THEN "invalid"
    ELSE IF decodeFails THEN "decode_fail"
    ELSE IF m.raw # "text" THEN "no_text"
    ELSE "decoded"

\* The fallback branches leave the wind fields as the report gives them.
WindFieldsStale(m, path) == <<m.wndir, m.wnspd>>

\* decoded_wndir and decoded_wnspd after the try block.
WindFields(m, path) ==
    IF path = "decoded" THEN <<m.wndir, m.wnspd>> ELSE <<<<"0">>, <<"0">>>>

\* flightcategory after the try block.
WindCategory(m, path) == IF path = "decoded" THEN m.category ELSE "N/A"

\* The message drawn inside the try block, if any.
FallbackOps(path) ==
    CASE path = "invalid" -> <<Op("routine", "text_invalid_metar", 0)>>
      [] path = "no_text" -> <<Op("routine", "text_no_metar_text", 0)>>
      [] path = "decode_fail" -> <<Op("routine", "text_decode_fail", 0)>>
      [] OTHER -> <<>>

\* Header, wind line and the first label of the left column (lines 144-174).
HeadOps(m, path) ==
    <<Op("routine", "header_rect", 0),
      Op("routine", "airport_text", 0),
      Op("routine", "flight_category_badge",
         IF WindCategory(m, path) = "N/A" THEN 0 ELSE 1),
      Op("routine", "wind_text", WindDirection(WindFields(m, path)[1])),
      Op("routine", "weather_label", 0)>>

\* The rest of the text columns (lines 176-203).
ColumnOps ==
    <<Op("routine", "weather_text", 0),
      Op("routine", "clouds", 0),
      Op("routine", "visibility", 0),
      Op("routine", "temperature", 0)>>

\* The runway is drawn first and the arrow over it.
VisualizationOpsRunwayFirst(m, path) ==
    RunwayOps
    \o (IF ArrowDrawn(WindSpeed(WindFields(m, path)[2]))
        THEN ArrowOps(WindDirection(WindFields(m, path)[1]))
        ELSE <<>>)

\* The centre visualization (lines 216-325): arrow if any, then the runway.
VisualizationOps(m, path) ==
    (IF ArrowDrawn(WindSpeed(WindFields(m, path)[2]))
     THEN ArrowOps(WindDirection(WindFields(m, path)[1]))
     ELSE <<>>)
    \o RunwayOps

FooterOps == <<Op("routine", "footer", 0)>>

\* layout_wind for report m.  decodeFails: a call inside the try block
\* raises.  fault: "weather_text" when an exception escapes from line 176
\* (descript is not a string, or the drawing call fails), "none" otherwise.
\* Gives the drawing calls made and whether an exception left the routine.
LayoutWind(m, decodeFails, fault) ==
    LET path == WindPath(m, decodeFails) IN
    IF path = "invalid"
    THEN [ops |-> FallbackOps(path), raised |-> FALSE]
    ELSE IF fault = "weather_text"
    THEN [ops |-> FallbackOps(path) \o HeadOps(m, path), raised |-> TRUE]
    ELSE [ops |-> FallbackOps(path) \o HeadOps(m, path) \o ColumnOps
                  \o VisualizationOps(m, path) \o FooterOps,
          raised |-> FALSE]

\* ------------------------------------------------------ explored inputs
Categories == {"VFR", "MVFR", "IFR", "LIFR", "UNK"}

\* Reports Metar(airport) can give: with text (wind 180 at 5 in every
\* flight category, a calm and a variable wind), with the raw text 'n/a',
\* with empty raw text, and with no data at all.
Reports ==
    {Report(TRUE, "text", <<"1", "8", "0">>, <<"5">>, c) : c \in Categories}
    \cup {Report(TRUE, "text", <<"1", "8", "0">>, <<"0">>, "VFR"),
          Report(TRUE, "text", VRB, <<"5">>, "VFR"),
          Report(TRUE, "na", <<>>, <<>>, "UNK"),
          Report(TRUE, "empty", <<>>, <<>>, "UNK"),
          Report(FALSE, "empty", <<>>, <<>>, "UNK")}

NoReport == Report(FALSE, "empty", <<>>, <<>>, "UNK")

\* Exceptions that can leave a layout routine after its try block.
Faults == {"none", "weather_text"}

\* sys.argv[10] as given by the web admin.
PrefArgs ==
    {NA, <<>>, <<"2", "0">>, <<"2", ",", "0">>, <<"5", "0">>}

ArgCounts == {1, 10, 11}

Intervals == {0, 45, -1}

Formats == {-2, -1, 0, MaxLayouts}

\* layout_list with n routines; routine i is at index i.
Routines(n) == [i \in 1..n |-> i - 1]

\* ------------------------------------------------- module-level settings
\* use_preferred after lines 118-142, for argument count n, argument p and
\* the value s imported from metar_settings.
UsePreferred(n, p, s) ==
    IF n > 10 THEN (IF p = NA THEN 0 ELSE 1) ELSE 0

\* The state when the script reaches "if __name__ == '__main__'"; with
\* exactly 10 arguments sys.argv[10] raises IndexError before that.
Init ==
    /\ argc \in ArgCounts
    /\ layout_list \in {Routines(n) : n \in 0..MaxLayouts}
    /\ use_disp_format \in Formats
    /\ interval \in Intervals
    /\ \/ /\ argc = 11
          /\ preferred_layouts \in PrefArgs
          /\ settings_use_preferred = 0
       \/ /\ argc < 11
          /\ preferred_layouts = <<"2", "0">>
          /\ settings_use_preferred \in (IF argc < 10 THEN {0, 1} ELSE {0})
    /\ use_preferred = UsePreferred(argc, preferred_layouts, settings_use_preferred)
    /\ pc = IF argc = 10 THEN "exited" ELSE "boot"
    /\ exit_how = IF argc = 10 THEN "import_error" ELSE ""
    /\ epd_bound = FALSE
    /\ cycle_num = 0
    /\ pref_cycle = 0
    /\ metar = NoReport
    /\ flightcategory = "N/A"
    /\ canvas = <<>>
    /\ sleeping_for = 0
    /\ display_asleep = FALSE
    /\ module_exited = FALSE
    /\ attempted = {}
    /\ calls = 0
    /\ returned = 0
    /\ lastSel = "none"
    /\ lastPick = -1
    /\ lastPos = -1
    /\ routinesRun = 0
    /\ caught = ""
    /\ screen = "none"

\* ------------------------------------------------------- start and exit
\* The cleanup calls the outer handlers make after a failed start: none in
\* "except IOError" (lines 300-302), module_exit in "except Exception"
\* (lines 309-317).
CleanupOnInitFailure(outcome) ==
    IF outcome = "error" THEN {"module_exit"} ELSE {}

\* The cleanup calls "except KeyboardInterrupt" (lines 303-308) makes:
\* epd.sleep() when the name epd is bound (NameError otherwise), and
\* module_exit once epd.sleep() has returned.
CleanupOnInterrupt(bound, sleepOk) ==
    (IF bound THEN {"epd.sleep"} ELSE {})
    \cup (IF bound /\ sleepOk THEN {"module_exit"} ELSE {})

\* Lines 183-190 with the outer handlers 300-302 and 309-317.  An IOError
\* is logged and the script ends; any other exception attempts module_exit
\* and exits.  atNew: the exception came from EPD() itself.
Initialize ==
    /\ pc = "boot"
    /\ \E outcome \in {"ok", "io_error", "error"}, atNew \in BOOLEAN,
          exitOk \in BOOLEAN :
          /\ outcome = "ok" => ~atNew /\ exitOk
          /\ outcome = "io_error" => exitOk
          /\ epd_bound' = ~atNew
          /\ pc' = IF outcome = "ok" THEN "loop" ELSE "exited"
          /\ screen' = IF outcome = "ok" THEN "blank" ELSE screen
          /\ exit_how' = CASE outcome = "ok" -> ""
                           [] outcome = "io_error" -> "io_error"
                           [] OTHER -> "fatal"
          /\ module_exited' = (outcome = "error" /\ exitOk)
          /\ attempted' = CleanupOnInitFailure(outcome)
    /\ UNCHANGED <<cfgVars, histVars, cycle_num, pref_cycle, metar,
                   flightcategory, canvas, sleeping_for, display_asleep>>

\* KeyboardInterrupt anywhere inside the outer try, handled at lines
\* 303-308: epd.sleep(), module_exit, exit().  While EPD() has not returned
\* the name epd is unbound and the handler itself raises NameError.
Interrupt ==
    /\ pc \in {"boot", "loop", "fetched", "drawn", "transferred", "sleeping",
               "handler", "err_sleeping"}
    /\ \E bound \in BOOLEAN, sleepOk \in BOOLEAN, exitOk \in BOOLEAN :
          /\ pc # "boot" => bound = epd_bound
          /\ ~bound => ~sleepOk
          /\ ~sleepOk => ~exitOk
          /\ epd_bound' = bound
          /\ display_asleep' = sleepOk
          /\ module_exited' = exitOk
          /\ attempted' = CleanupOnInterrupt(bound, sleepOk)
          /\ exit_how' = IF ~bound THEN "interrupt_name_error"
                         ELSE IF sleepOk /\ exitOk THEN "interrupt"
                         ELSE "interrupt_error"
    /\ pc' = "exited"
    /\ metar' = NoReport
    /\ flightcategory' = "N/A"
    /\ canvas' = <<>>
    /\ sleeping_for' = 0
    /\ caught' = ""
    /\ UNCHANGED <<cfgVars, calls, returned, lastSel, lastPick, lastPos,
                   routinesRun, cycle_num, pref_cycle, screen>>

\* ---------------------------------------------------- layout selection
\* [int(a) for a in str(preferred_layouts)] raises ValueError on a
\* character that is no digit.
PrefParseFails(s) == \E i \in 1..Len(s) : ~IsDigitChar(s[i])

\* p_layouts_lst, for a string of digits.
PrefList(s) == [i \in 1..Len(s) |-> DigitVal(s[i])]

\* The position is taken from the counter plus one.
PrefPosAhead(c, p) == (c + 1) % Len(p)

\* current_pref_index = pref_cycle % len(p_layouts_lst)
PrefPos(c, p) == c % Len(p)

\* The index is taken from the counter plus one.
CycleIndexAhead(c, list) == (c + 1) % Len(list)

\* current_cycle_index = cycle_num % len(layout_list)
CycleIndex(c, list) == c % Len(list)

\* 0 <= index < len(layout_list)
ValidIndex(i, list) == 0 <= i /\ i < Len(list)

Choice(tag, idx, pos) == [tag |-> tag, idx |-> idx, pos |-> pos]

\* cycle_layout up to the call of the routine: which index it invokes
\* ("invoke"), or why it invokes none.
CycleChoice ==
    IF use_preferred = 1
    THEN IF PrefParseFails(preferred_layouts)
         THEN Choice("value_error", -1, -1)
         ELSE IF Len(PrefList(preferred_layouts)) = 0
         THEN Choice("empty_preferred", -1, -1)
         ELSE LET p == PrefList(preferred_layouts)
                  pos == PrefPos(pref_cycle, p)
              IN IF ValidIndex(p[pos + 1], layout_list)
                 THEN Choice("invoke", p[pos + 1], pos)
                 ELSE Choice("preferred_out_of_range", p[pos + 1], pos)
    ELSE IF Len(layout_list) = 0
         THEN Choice("zero_division", -1, -1)
         ELSE Choice("invoke", CycleIndex(cycle_num, layout_list), -1)

\* random_layout up to the call of the routine; rnd is random.choice's pick.
RandomChoice(rnd) ==
    IF Len(layout_list) = 0
    THEN Choice("empty_list", -1, -1)
    ELSE Choice("invoke", rnd, -1)

\* main(): the branch taken for use_disp_format.
MainChoice(rnd) ==
    IF use_disp_format = -1 THEN RandomChoice(rnd)
    ELSE IF use_disp_format = -2 THEN CycleChoice
    ELSE IF ValidIndex(use_disp_format, layout_list)
         THEN Choice("invoke", use_disp_format, -1)
         ELSE Choice("invalid_index", use_disp_format, -1)

\* Selection outcomes in which an exception leaves the selection call.
RaisingTags == {"value_error", "zero_division"}

\* Selection outcomes in which the call returns without invoking a routine.
SkipTags == {"empty_preferred", "preferred_out_of_range", "empty_list"}

\* The selector draws a message where line 67 only notes "Draw error".
SelectorDrawsError(tag) ==
    IF tag = "preferred_out_of_range"
    THEN <<Op("selector", "text_error", 0)>> ELSE <<>>

\* What cycle_layout and random_layout draw themselves: nothing, whatever
\* the outcome (lines 51-54, 65-67, 80-82 only print).
SelectorOps(tag) == <<>>

\* The counter is stepped whether or not the routine returned.
StepAlways(c, raised) == c + 1

\* A routine that raises sets the counter back to 0.
StepOrReset(c, raised) == IF raised THEN 0 ELSE c + 1

\* counter = (counter + 1) after the routine returned; a routine that
\* raises leaves the statement unreached.
StepCounter(c, raised) == IF raised THEN c ELSE c + 1

\* ---------------------------------------------------------- render loop
\* The image, the report and the flight category of a cycle are not read
\* again once the cycle is over (lines 197, 204, 210 and 217 assign them
\* anew before any use), and the model holds them only while a cycle runs.
CycleOver ==
    /\ metar' = NoReport
    /\ flightcategory' = "N/A"
    /\ canvas' = <<>>

\* Lines 194-217: new image, Metar(airport), get_rawOb, then either
\* decode_remarks and flight_category or the "No METAR Data" message.
Fetch ==
    /\ pc = "loop"
    /\ routinesRun' = 0
    /\ \E m \in Reports, out \in {"ok", "fetch_raises", "decode_raises", "draw_raises"} :
          /\ out = "decode_raises" => m.raw # "empty"
          /\ out = "draw_raises" => m.raw = "empty"
          /\ out = "fetch_raises" => m = NoReport
          /\ metar' = IF out = "fetch_raises" THEN metar ELSE m
          /\ canvas' = IF out = "ok" /\ m.raw = "empty"
                       THEN <<Op("loop", "text_no_metar_data", 0)>>
                       ELSE <<>>
          /\ flightcategory' =
                IF out # "ok" THEN flightcategory
                ELSE IF m.raw = "empty" THEN "N/A" ELSE m.category
          /\ pc' = IF out = "ok" THEN "fetched" ELSE "handler"
          /\ caught' = IF out = "ok" THEN caught ELSE "fetch"
    /\ UNCHANGED <<cfgVars, epd_bound, cycle_num, pref_cycle, sleeping_for,
                   exitVars, calls, returned, lastSel, lastPick, lastPos, screen>>

\* Line 221: main(epd, Limage, draw), with the selection call and the
\* routine it invokes.  Every routine of layout_list is taken to behave as
\* layout_wind, the one routine the list holds.  msgFails: the drawing call
\* of line 174 raises.
BuildLayout ==
    /\ pc = "fetched"
    /\ use_disp_format = -2 => calls < MaxCalls
    /\ \E rnd \in 0..MaxLayouts, decodeFails \in BOOLEAN, fault \in Faults,
          msgFails \in BOOLEAN :
          LET ch == MainChoice(rnd)
              w == LayoutWind(metar, decodeFails, fault)
              invoked == ch.tag = "invoke"
              raised == \/ invoked /\ w.raised
                        \/ ch.tag \in RaisingTags
                        \/ ch.tag = "invalid_index" /\ msgFails
              cycling == use_disp_format = -2
          IN  /\ ValidIndex(rnd, layout_list) \/ (rnd = 0 /\ Len(layout_list) = 0)
              /\ use_disp_format # -1 => rnd = 0
              /\ ~invoked => ~decodeFails /\ fault = "none"
              /\ ch.tag # "invalid_index" => ~msgFails
              /\ canvas' =
                    IF invoked THEN canvas \o SelectorOps(ch.tag) \o w.ops
                    ELSE IF ch.tag = "invalid_index" /\ ~msgFails
                    THEN Append(canvas, Op("main", "text_invalid_layout", 0))
                    ELSE canvas \o SelectorOps(ch.tag)
              /\ routinesRun' = IF invoked THEN routinesRun + 1 ELSE routinesRun
              /\ cycle_num' =
                    IF cycling /\ invoked /\ use_preferred # 1
                    THEN StepCounter(cycle_num, w.raised) ELSE cycle_num
              /\ pref_cycle' =
                    IF cycling /\ invoked /\ use_preferred = 1
                    THEN StepCounter(pref_cycle, w.raised) ELSE pref_cycle
              /\ calls' = IF cycling THEN calls + 1 ELSE calls
              /\ returned' = IF cycling /\ invoked /\ ~w.raised
                             THEN returned + 1 ELSE returned
              /\ lastSel' = IF invoked /\ w.raised THEN "routine_raised" ELSE ch.tag
              /\ lastPick' = IF invoked THEN layout_list[ch.idx + 1] ELSE -1
              /\ lastPos' = ch.pos
              /\ pc' = IF raised THEN "handler" ELSE "drawn"
              /\ caught' = IF raised THEN "layout" ELSE caught
    /\ UNCHANGED <<cfgVars, epd_bound, metar, flightcategory, sleeping_for,
                   exitVars, screen>>

\* Lines 225-228: getbuffer_4Gray and display_4Gray.
Transfer ==
    /\ pc = "drawn"
    /\ \E ok \in BOOLEAN :
          /\ screen' = IF ok THEN "layout" ELSE screen
          /\ pc' = IF ok THEN "transferred" ELSE "handler"
          /\ caught' = IF ok THEN caught ELSE "transfer"
    /\ UNCHANGED <<cfgVars, calls, returned, lastSel, lastPick, lastPos,
                   routinesRun, epd_bound, cycle_num, pref_cycle, metar,
                   flightcategory, canvas, sleeping_for, exitVars>>

\* The default branch gives 600 seconds.
SleepIntervalShort(iv, category) ==
    IF iv # 0 THEN iv
    ELSE CASE category = "VFR" -> 3600
           [] category = "MVFR" -> 1800
           [] category = "IFR" -> 1200
           [] category = "LIFR" -> 600
           [] OTHER -> 600

\* Lines 232-251: sleep_interval for interval override iv and flight category.
SleepIntervalOf(iv, category) ==
    IF iv # 0 THEN iv
    ELSE CASE category = "VFR" -> 3600
           [] category = "MVFR" -> 1800
           [] category = "IFR" -> 1200
           [] category = "LIFR" -> 600
           [] OTHER -> 1800

\* Lines 232-254: time.sleep(sleep_interval); a negative length raises
\* ValueError.
SleepInterval ==
    /\ pc = "transferred"
    /\ LET sleep_interval == SleepIntervalOf(interval, flightcategory)
       IN  /\ pc' = IF sleep_interval < 0 THEN "handler" ELSE "sleeping"
           /\ sleeping_for' = IF sleep_interval < 0 THEN 0 ELSE sleep_interval
           /\ caught' = IF sleep_interval < 0 THEN "sleep" ELSE caught
    /\ UNCHANGED <<cfgVars, calls, returned, lastSel, lastPick, lastPos,
                   routinesRun, epd_bound, cycle_num, pref_cycle, metar,
                   flightcategory, canvas, exitVars, screen>>

\* time.sleep(sleep_interval) returns: back to "while True".
Wake ==
    /\ pc = "sleeping"
    /\ pc' = "loop"
    /\ sleeping_for' = 0
    /\ CycleOver
    /\ UNCHANGED <<cfgVars, histVars, epd_bound, cycle_num, pref_cycle,
                   exitVars, screen>>

ErrorRetryDelay == 60

\* A failure to show the error screen ends the process.
AfterErrorScreenFatal(shown) == IF shown THEN "err_sleeping" ELSE "exited"

\* Lines 269-298: whether or not the error screen could be shown (the inner
\* handler at 294 catches the failure) the handler goes on to time.sleep(60).
AfterErrorScreen(shown) == "err_sleeping"

\* Lines 257-298: the handler of the render loop.
HandleCycleError ==
    /\ pc = "handler"
    /\ \E shown \in BOOLEAN :
          /\ screen' = IF shown THEN "error" ELSE screen
          /\ pc' = AfterErrorScreen(shown)
          /\ sleeping_for' = IF AfterErrorScreen(shown) = "err_sleeping"
                             THEN ErrorRetryDelay ELSE 0
          /\ exit_how' = IF AfterErrorScreen(shown) = "exited"
                         THEN "cycle_error" ELSE exit_how
    /\ UNCHANGED <<cfgVars, histVars, epd_bound, cycle_num, pref_cycle, metar,
                   flightcategory, canvas, display_asleep, module_exited,
                   attempted>>

\* time.sleep(60) returns: back to "while True".
ErrWake ==
    /\ pc = "err_sleeping"
    /\ pc' = "loop"
    /\ sleeping_for' = 0
    /\ caught' = ""
    /\ CycleOver
    /\ UNCHANGED <<cfgVars, calls, returned, lastSel, lastPick, lastPos,
                   routinesRun, epd_bound, cycle_num, pref_cycle, exitVars,
                   screen>>

Next ==
    \/ Initialize
    \/ Fetch
    \/ BuildLayout
    \/ Transfer
    \/ SleepInterval
    \/ Wake
    \/ HandleCycleError
    \/ ErrWake
    \/ Interrupt

Spec == Init /\ [][Next]_vars

\* The process with layout_list as line 117 writes it: one routine.
InitAsShipped == Init /\ Len(layout_list) = 1

SpecAsShipped == InitAsShipped /\ [][Next]_vars

\* The interpreter runs the script on: every step but the interrupt, which
\* only the user causes, is eventually taken.
FairSpecAsShipped ==
    /\ SpecAsShipped
    /\ WF_vars(Initialize)
    /\ WF_vars(Fetch)
    /\ WF_vars(BuildLayout)
    /\ WF_vars(Transfer)
    /\ WF_vars(SleepInterval)
    /\ WF_vars(Wake)
    /\ WF_vars(HandleCycleError)
    /\ WF_vars(ErrWake)

\* ------------------------------------------- layout_wind on its own
\* Wind directions and speeds decode_rawmessage can give layout_wind.
WindDirs == DigitStrings(MaxDirLen) \cup {VRB, <<>>}

WindSpeeds == {<<"0">>, <<"5">>, <<"1", "2">>, Calm, <<>>}

\* One call of layout_wind (lines 92-331) on a report with text.
InitWind ==
    /\ argc = 1
    /\ layout_list = Routines(1)
    /\ use_disp_format = 0
    /\ interval = 0
    /\ preferred_layouts = <<"2", "0">>
    /\ settings_use_preferred = 0
    /\ use_preferred = 0
    /\ pc = "wind_call"
    /\ exit_how = ""
    /\ epd_bound = TRUE
    /\ cycle_num = 0
    /\ pref_cycle = 0
    /\ metar \in {Report(TRUE, "text", d, v, "VFR") : d \in WindDirs, v \in WindSpeeds}
    /\ flightcategory = "VFR"
    /\ canvas = <<>>
    /\ sleeping_for = 0
    /\ display_asleep = FALSE
    /\ module_exited = FALSE
    /\ attempted = {}
    /\ calls = 0
    /\ returned = 0
    /\ lastSel = "none"
    /\ lastPick = -1
    /\ lastPos = -1
    /\ routinesRun = 0
    /\ caught = ""
    /\ screen = "blank"

WindCall ==
    /\ pc = "wind_call"
    /\ \E decodeFails \in BOOLEAN :
          /\ canvas' = LayoutWind(metar, decodeFails, "none").ops
          /\ lastSel' = IF decodeFails THEN "decode_fail" ELSE "decoded"
    /\ pc' = "wind_done"
    /\ routinesRun' = 1
    /\ UNCHANGED <<cfgVars, epd_bound, cycle_num, pref_cycle, metar,
                   flightcategory, sleeping_for, exitVars, calls, returned,
                   lastPick, lastPos, caught, screen>>

NextWind == WindCall

SpecWind == InitWind /\ [][NextWind]_vars

\* ------------------------------------------------------- claim helpers
HasOp(name) == \E i \in 1..Len(canvas) : canvas[i].op = name

CountOp(name) == Cardinality({i \in 1..Len(canvas) : canvas[i].op = name})

CycleAllMode == use_disp_format = -2 /\ use_preferred # 1

CyclePreferredMode == use_disp_format = -2 /\ use_preferred = 1

\* The preferred sequence is a non-empty list of valid indices.
PreferredAllValid ==
    /\ ~PrefParseFails(preferred_layouts)
    /\ Len(preferred_layouts) > 0
    /\ \A i \in 1..Len(preferred_layouts) :
          DigitVal(preferred_layouts[i]) < Len(layout_list)

\* ------------------------------------------------------------------- C1
\* C1 as stated: in cycle-all mode with M >= 1 routines the k-th call to
\* cycle_layout (k counted from 0 over all calls) invokes routine k mod M
\* and the cycle-all counter then equals the number of calls made.
C1_KthCallInvokesKModM ==
    (CycleAllMode /\ Len(layout_list) >= 1 /\ calls >= 1) =>
        /\ lastPick = (calls - 1) % Len(layout_list)
        /\ cycle_num = calls

\* C1 amended: in cycle-all mode with M >= 1 routines a call made after c
\* calls whose routine returned normally invokes routine c mod M, and the
\* counter is incremented exactly when the routine returns; a call whose
\* routine raises leaves the counter where it was.  As long as no routine
\* has raised, the k-th call invokes routine k mod M.
C1_CycleAllFollowsReturnedCalls ==
    (CycleAllMode /\ Len(layout_list) >= 1 /\ calls >= 1) =>
        /\ cycle_num = returned
        /\ lastSel \in {"invoke", "routine_raised"}
        /\ lastSel = "invoke" => lastPick = (returned - 1) % Len(layout_list)
        /\ lastSel = "routine_raised" => lastPick = returned % Len(layout_list)
        /\ returned = calls => lastPick = (calls - 1) % Len(layout_list)

\* Four calls over three routines, all returned: 0, 1, 2 and round to 0.
C1_Witness ==
    /\ CycleAllMode
    /\ Len(layout_list) = 3
    /\ calls = 4
    /\ returned = 4
    /\ cycle_num = 4
    /\ lastPick = 0

\* ------------------------------------------------------------------- C2
\* C2 as stated: in cycle-preferred mode with a non-empty preferred
\* sequence P of valid indices the k-th call (counted over all calls)
\* invokes routine P[k mod len(P)] and the preferred counter then equals
\* the number of calls; with P = [2,0] and 3 routines calls 0..3 invoke
\* routines 2, 0, 2, 0.
C2_KthCallInvokesPreferred ==
    (CyclePreferredMode /\ PreferredAllValid /\ calls >= 1) =>
        /\ lastPick = DigitVal(preferred_layouts[((calls - 1) % Len(preferred_layouts)) + 1])
        /\ pref_cycle = calls
        /\ (preferred_layouts = <<"2", "0">> /\ Len(layout_list) = 3 /\ calls <= 4)
              => lastPick = <<2, 0, 2, 0>>[calls]

\* C2 amended: in cycle-preferred mode with a non-empty preferred sequence
\* P of valid indices a call made after c calls whose routine returned
\* normally invokes routine P[c mod len(P)], and the preferred counter is
\* incremented exactly when the routine returns; with P = [2,0] and 3
\* routines calls 0..3 invoke routines 2, 0, 2, 0 as long as no routine
\* raises.
C2_PreferredFollowsReturnedCalls ==
    (CyclePreferredMode /\ PreferredAllValid /\ calls >= 1) =>
        LET n == Len(preferred_layouts)
            P(k) == DigitVal(preferred_layouts[(k % n) + 1])
        IN  /\ pref_cycle = returned
            /\ cycle_num = 0
            /\ lastSel \in {"invoke", "routine_raised"}
            /\ lastSel = "invoke" => lastPick = P(returned - 1)
            /\ lastSel = "routine_raised" => lastPick = P(returned)
            /\ (preferred_layouts = <<"2", "0">> /\ Len(layout_list) = 3
                /\ returned = calls /\ calls <= 4)
                  => lastPick = <<2, 0, 2, 0>>[calls]

\* The fourth call with P = [2,0] over three routines, all returned.
C2_Witness ==
    /\ CyclePreferredMode
    /\ preferred_layouts = <<"2", "0">>
    /\ Len(layout_list) = 3
    /\ calls = 4
    /\ returned = 4
    /\ lastPick = 0

\* ------------------------------------------------------------------- C3
\* C3 as stated: a preferred index that is out of range fails that one call
\* only: the call invokes no routine and raises nothing, and, when the
\* preferred sequence holds a valid entry elsewhere, the call that follows
\* goes on to another entry of the sequence.
C3_OutOfRangeFailsOneCallOnly ==
    /\ [](lastSel = "preferred_out_of_range" => lastPick = -1 /\ caught # "layout")
    /\ [][(/\ lastSel = "preferred_out_of_range"
           /\ calls' = calls + 1
           /\ \E j \in 1..Len(preferred_layouts) :
                 ValidIndex(DigitVal(preferred_layouts[j]), layout_list))
          => lastPos' # lastPos]_vars

\* ------------------------------------------------------------------- C4
\* C4 as stated: in every render cycle exactly one layout routine executes
\* between canvas creation and display transfer, and nothing but that
\* routine writes to the canvas.
C4_ExactlyOneRoutineSoleWriter ==
    pc \in {"drawn", "transferred"} =>
        /\ routinesRun = 1
        /\ \A i \in 1..Len(canvas) : canvas[i].by = "routine"

\* C4 amended: in every render cycle at most one layout routine executes
\* between canvas creation and display transfer: exactly one when the
\* selection succeeds, none when it fails (fixed index out of range, empty
\* routine list under random, empty or out-of-range preferred entry).  The
\* only other writers of the canvas are the loop's "No METAR Data" message,
\* drawn first when no raw text was fetched, and main()'s "Invalid Layout"
\* message, drawn when the fixed index is out of range; cycle_layout and
\* random_layout draw nothing themselves.
C4_AtMostOneRoutineKnownWriters ==
    /\ routinesRun <= 1
    /\ pc \in {"drawn", "transferred", "sleeping"} =>
        /\ routinesRun = 1 <=> lastSel = "invoke"
        /\ routinesRun = 0 <=> lastSel \in SkipTags \cup {"invalid_index"}
        /\ \A i \in 1..Len(canvas) :
              \/ canvas[i].by = "routine" /\ routinesRun = 1
              \/ /\ canvas[i] = Op("loop", "text_no_metar_data", 0)
                 /\ i = 1
                 /\ metar.raw = "empty"
              \/ /\ canvas[i] = Op("main", "text_invalid_layout", 0)
                 /\ lastSel = "invalid_index"
                 /\ use_disp_format >= 0
                 /\ ~ValidIndex(use_disp_format, layout_list)

\* A cycle that reached the display with no routine run and the canvas
\* written by the loop and by main() only.
C4_Witness ==
    /\ pc = "transferred"
    /\ routinesRun = 0
    /\ canvas = <<Op("loop", "text_no_metar_data", 0),
                  Op("main", "text_invalid_layout", 0)>>

\* ------------------------------------------------------------------- C5
\* C5 as stated: every layout-selection failure (fixed index out of range,
\* empty preferred sequence, preferred index out of range, empty routine
\* list under random or cycle-all) is recovered inside the selection call:
\* no routine is invoked and no exception leaves the call.
C5_SelectionFailuresRecovered ==
    LET fixedOut == use_disp_format >= 0 /\ ~ValidIndex(use_disp_format, layout_list)
        emptyPreferred == CyclePreferredMode /\ preferred_layouts = <<>>
        emptyList == /\ Len(layout_list) = 0
                     /\ use_disp_format = -1 \/ CycleAllMode
    IN  /\ (lastSel # "none" /\ (fixedOut \/ emptyPreferred \/ emptyList)) =>
              /\ lastSel \in SkipTags \cup {"invalid_index"}
              /\ lastPick = -1
        /\ lastSel = "preferred_out_of_range" => lastPick = -1

\* ------------------------------------------------------------------- C6
\* C6: an exception raised inside a render cycle is caught by the loop; the
\* handler then sleeps exactly 60 seconds, whether or not the error screen
\* could be shown, and the loop begins again: the process ends only by a
\* failure before the loop or by an interrupt, never by a per-cycle
\* exception.
C6_CycleErrorsRecovered ==
    /\ [](pc = "err_sleeping" => sleeping_for = 60 /\ caught # "")
    /\ [](pc = "exited" =>
            exit_how \in {"import_error", "io_error", "fatal", "interrupt",
                          "interrupt_error", "interrupt_name_error"})
    /\ (pc = "handler" ~> (pc = "loop" \/ pc = "exited"))

\* The handler is sleeping after an exception of the display transfer and
\* after the error screen could not be shown either.
C6_Witness ==
    /\ pc = "err_sleeping"
    /\ caught = "transfer"
    /\ screen # "error"
    /\ sleeping_for = 60

\* ------------------------------------------------------------------- C7
\* C7: after a cycle that completes without error the sleep lasts the
\* interval override when it is nonzero, and otherwise 3600 s for VFR,
\* 1800 s for MVFR, 1200 s for IFR, 600 s for LIFR and 1800 s for any other
\* category, the N/A of a cycle without report included.
C7_SleepIntervalByCategory ==
    pc = "sleeping" =>
        /\ flightcategory = (IF metar.raw = "empty" THEN "N/A" ELSE metar.category)
        /\ interval # 0 => sleeping_for = interval
        /\ (interval = 0 /\ flightcategory = "VFR") => sleeping_for = 3600
        /\ (interval = 0 /\ flightcategory = "MVFR") => sleeping_for = 1800
        /\ (interval = 0 /\ flightcategory = "IFR") => sleeping_for = 1200
        /\ (interval = 0 /\ flightcategory = "LIFR") => sleeping_for = 600
        /\ (interval = 0 /\ flightcategory \notin {"VFR", "MVFR", "IFR", "LIFR"})
              => sleeping_for = 1800

\* Sleeping after a cycle that fetched no report, with no override.
C7_Witness ==
    /\ pc = "sleeping"
    /\ interval = 0
    /\ metar.raw = "empty"
    /\ flightcategory = "N/A"
    /\ sleeping_for = 1800

\* ------------------------------------------------------------------- C8
\* The drawing calls the routine made, in order.
RoutineOps == SelectSeq(canvas, LAMBDA o : o.by = "routine")

\* Header, wind line, text columns, runway and footer are all drawn.
RestOfLayoutDrawn ==
    /\ HasOp("header_rect")
    /\ HasOp("wind_text")
    /\ HasOp("weather_text")
    /\ HasOp("clouds")
    /\ HasOp("visibility")
    /\ HasOp("temperature")
    /\ HasOp("runway_polygon")
    /\ HasOp("footer")

\* C8 as stated: when the report is unavailable or malformed (empty raw
\* text, a report object with no data, a decode step that raises) the
\* routine draws a fallback message and still draws the rest of the layout.
C8_FallbackThenRestOfLayout ==
    (/\ pc = "drawn"
     /\ lastSel = "invoke"
     /\ \/ metar.raw # "text"
        \/ ~metar.has_data
        \/ HasOp("text_decode_fail")) =>
        /\ \/ HasOp("text_no_metar_text")
           \/ HasOp("text_decode_fail")
           \/ HasOp("text_invalid_metar")
        /\ RestOfLayoutDrawn

\* C8 amended: when the report object has data but its raw text is empty or
\* 'n/a', or a decode step inside the layout routine raises, the routine
\* draws a fallback message and still draws the rest of the layout with
\* N/A and zero-wind values (no arrow); when the report object has no data
\* the routine draws only its "Invalid METAR data" message and returns.
\* Either way the exception handler of the loop is entered from the layout
\* step only when a later drawing call or the selection itself raises.  When
\* the loop fetched no raw text it draws "No METAR Data" first and sets the
\* category N/A.
C8_FallbackPaths ==
    /\ (pc = "drawn" /\ lastSel = "invoke" /\ metar.has_data
        /\ (metar.raw # "text" \/ HasOp("text_decode_fail"))) =>
          /\ HasOp("text_no_metar_text") \/ HasOp("text_decode_fail")
          /\ RestOfLayoutDrawn
          /\ ~HasOp("arrow_shaft") /\ ~HasOp("arrow_head")
          /\ \A i \in 1..Len(canvas) :
                canvas[i].op \in {"wind_text", "flight_category_badge"}
                   => canvas[i].arg = 0
    /\ (pc = "drawn" /\ lastSel = "invoke" /\ ~metar.has_data) =>
          RoutineOps = <<Op("routine", "text_invalid_metar", 0)>>
    /\ (pc = "handler" /\ caught = "layout") =>
          lastSel \in {"routine_raised", "invalid_index"} \cup RaisingTags
    /\ (pc = "fetched" /\ metar.raw = "empty") =>
          /\ canvas = <<Op("loop", "text_no_metar_data", 0)>>
          /\ flightcategory = "N/A"

\* A decode step inside the routine raised, and the layout was completed.
C8_Witness ==
    /\ pc = "drawn"
    /\ lastSel = "invoke"
    /\ metar.raw = "text"
    /\ HasOp("text_decode_fail")
    /\ HasOp("footer")

\* ------------------------------------------------------------------- C9
\* C9 as stated: when the wind speed is 0 or the wind direction is
\* unavailable (missing, or not a number, as for a variable wind) layout_wind
\* draws no arrow shaft or head, and still draws the runway trapezoid, its
\* two centerline dashes, the runway number and the eight threshold ticks.
C9_NoArrowWithoutSpeedOrDirection ==
    (/\ pc = "wind_done"
     /\ \/ WindSpeed(metar.wnspd) = 0
        \/ ~isdigit(metar.wndir)) =>
        /\ ~HasOp("arrow_shaft")
        /\ ~HasOp("arrow_head")
        /\ CountOp("runway_polygon") = 1
        /\ CountOp("centerline_dash") = 2
        /\ CountOp("runway_number") = 1
        /\ CountOp("threshold_tick") = 8

\* ------------------------------------------------------------------ C10
\* C10: for every wind direction layout_wind parses (a digit string, of any
\* size) and runway heading 180 the two normalization loops end with a
\* relative angle r, -180 < r <= 180, congruent to direction - 180 modulo
\* 360; direction 180 gives r = 0.
C10_RelativeAngleNormalized ==
    (pc = "wind_done" /\ isdigit(metar.wndir)) =>
        \A i \in 1..Len(canvas) :
            canvas[i].op \in {"arrow_shaft", "arrow_head"} =>
                LET r == canvas[i].arg
                    d == IntOf(metar.wndir)
                IN  /\ -180 < r /\ r <= 180
                    /\ (r - (d - 180)) % 360 = 0
                    /\ d = 180 => r = 0

\* Direction 000 at 5: the arrow is drawn, at 180 degrees (the second loop
\* brought -180 up).
C10_Witness ==
    /\ pc = "wind_done"
    /\ metar.wndir = <<"0", "0", "0">>
    /\ metar.wnspd = <<"5">>
    /\ \E i \in 1..Len(canvas) :
          canvas[i].op = "arrow_shaft" /\ canvas[i].arg = 180

\* ------------------------------------------------------------------ C11
\* The process ended on a failure of the display set-up (lines 183-190).
InitFailed == pc = "exited" /\ exit_how \in {"io_error", "fatal"}

\* C11: whenever the display set-up fails before the loop, an I/O error
\* included, the process attempts the module_exit cleanup and ends without
\* having entered the render loop (nothing fetched, drawn or shown).
C11_InitFailureAttemptsCleanup ==
    InitFailed =>
        /\ "module_exit" \in attempted
        /\ screen = "none"
        /\ calls = 0
        /\ routinesRun = 0

\* ------------------------------------------------------------------ C12
\* The process ended on a KeyboardInterrupt (lines 303-308).
Interrupted ==
    /\ pc = "exited"
    /\ exit_how \in {"interrupt", "interrupt_error", "interrupt_name_error"}

\* C12: a KeyboardInterrupt at any point of the process is followed by an
\* attempt to put the display to sleep and an attempt to release the
\* display resource before the process ends.
C12_InterruptAttemptsSleepAndRelease ==
    Interrupted =>
        /\ "epd.sleep" \in attempted
        /\ "module_exit" \in attempted

\* ------------------------------------------------------------------ C13
\* C13: cycle_num and pref_cycle start at 0 and are never decreased or
\* reset; one step of the program changes at most one of them, by exactly
\* +1, and only a cycle_layout call does; a cycle-all call leaves
\* pref_cycle alone, a preferred call leaves cycle_num alone, and random
\* and fixed-index selection leave both alone.
C13_CountersStepByOneInOwnMode ==
    /\ (pc = "boot" => cycle_num = 0 /\ pref_cycle = 0)
    /\ [][/\ cycle_num' \in {cycle_num, cycle_num + 1}
          /\ pref_cycle' \in {pref_cycle, pref_cycle + 1}
          /\ cycle_num' = cycle_num \/ pref_cycle' = pref_cycle
          /\ CycleAllMode => pref_cycle' = pref_cycle
          /\ CyclePreferredMode => cycle_num' = cycle_num
          /\ use_disp_format # -2 =>
                cycle_num' = cycle_num /\ pref_cycle' = pref_cycle
          /\ (cycle_num' # cycle_num \/ pref_cycle' # pref_cycle) =>
                pc = "fetched" /\ calls' = calls + 1]_vars

\* Three cycle-all calls, one of which raised: the counter stands at 2 and
\* the preferred counter at 0.
C13_Witness ==
    /\ CycleAllMode
    /\ calls = 3
    /\ returned = 2
    /\ cycle_num = 2
    /\ pref_cycle = 0

\* ------------------------------------------------------------------ C14
\* The configuration comes from the settings file (lines 143-146).
FromSettings == argc < 10

\* C14: with the configuration taken from the settings file the flag
\* handed to cycle_layout is the one the settings file supplies; when the
\* settings set use_preferred to 1, a cycle_layout call takes the preferred
\* branch (it reads a position of the preferred list).
C14_SettingsFlagReachesSelector ==
    (FromSettings /\ use_disp_format = -2 /\ calls > 0) =>
        /\ use_preferred = settings_use_preferred
        /\ settings_use_preferred = 1 =>
              (lastSel \in {"invoke", "routine_raised"} => lastPos >= 0)

\* ------------------------------------------------------------------ C15
\* The two spellings of the preferred list 2, 0 on the command line.
CommaSeparated == <<"2", ",", "0">>

DigitString == <<"2", "0">>

\* C15: on the command line "2,0" and "20" both enable preferred cycling
\* and cycle_layout turns either into the list [2, 0] without raising (a
\* call that invokes a routine took the entry of [2, 0] at its position);
\* "na" disables preferred cycling.
C15_BothSpellingsGiveSameList ==
    argc > 10 =>
        /\ preferred_layouts = NA => use_preferred = 0
        /\ preferred_layouts \in {CommaSeparated, DigitString} =>
              /\ use_preferred = 1
              /\ (use_disp_format = -2 /\ calls > 0) =>
                    /\ lastSel # "value_error"
                    /\ lastSel \in {"invoke", "routine_raised"} =>
                          lastPick = <<2, 0>>[lastPos + 1]

\* ------------------------------------------------------------------ C16
\* The place of a drawing call in the order of the centre visualization:
\* shaft, head, runway fill, then the markings and the number; 0 for the
\* calls outside it.
DrawRank(o) ==
    CASE o.op = "arrow_shaft" -> 1
      [] o.op = "arrow_head" -> 2
      [] o.op = "runway_polygon" -> 3
      [] o.op \in {"centerline_dash", "runway_number", "threshold_tick"} -> 4
      [] OTHER -> 0

\* C16: in one layout_wind call that decoded a wind speed above 0 the arrow
\* is drawn, and whenever the arrow is drawn the order is: arrow shaft,
\* arrow head, runway trapezoid (one of each), and only after the runway
\* fill the centerline dashes, the threshold ticks and the runway number;
\* no arrow polygon comes after the runway trapezoid.
C16_ArrowBeforeRunwayBeforeMarkings ==
    pc = "wind_done" =>
        /\ (lastSel = "decoded" /\ WindSpeed(metar.wnspd) > 0) =>
              HasOp("arrow_shaft")
        /\ HasOp("arrow_shaft") =>
              /\ CountOp("arrow_shaft") = 1
              /\ CountOp("arrow_head") = 1
              /\ CountOp("runway_polygon") = 1
              /\ HasOp("centerline_dash")
              /\ HasOp("threshold_tick")
              /\ HasOp("runway_number")
              /\ \A i, j \in 1..Len(canvas) :
                    (i < j /\ DrawRank(canvas[i]) > 0 /\ DrawRank(canvas[j]) > 0)
                        => DrawRank(canvas[i]) <= DrawRank(canvas[j])

\* Wind 270 at 12: shaft, head, runway and markings are all on the canvas.
C16_Witness ==
    /\ pc = "wind_done"
    /\ lastSel = "decoded"
    /\ metar.wndir = <<"2", "7", "0">>
    /\ metar.wnspd = <<"1", "2">>
    /\ HasOp("arrow_head")
    /\ HasOp("runway_polygon")
    /\ HasOp("threshold_tick")

\* ------------------------------------------------------------------ C17
\* C17: a cycle_layout call whose routine raises leaves both counters
\* unchanged and ends the cycle in the error handler; the handler sleeps 60
\* seconds and goes back to the top of the loop (or the process is
\* interrupted); the next cycle_layout call selects the same routine at
\* the same position again; while no call has returned the counters stay
\* at 0, so cycling never advances to another routine.
C17_RaisingRoutineIsRetried ==
    /\ [][(pc = "fetched" /\ calls' = calls + 1
                /\ lastSel' = "routine_raised") =>
             /\ cycle_num' = cycle_num
             /\ pref_cycle' = pref_cycle
             /\ pc' = "handler"]_vars
    /\ [][(lastSel = "routine_raised" /\ calls' = calls + 1) =>
             /\ lastSel' \in {"invoke", "routine_raised"}
             /\ lastPick' = lastPick
             /\ lastPos' = lastPos]_vars
    /\ [][pc = "err_sleeping" =>
             /\ sleeping_for = ErrorRetryDelay
             /\ pc' \in {"loop", "exited"}]_vars
    /\ [][(use_disp_format = -2 /\ returned' = 0) =>
             cycle_num' = 0 /\ pref_cycle' = 0]_vars

\* Three routines, three cycle-all calls that all raised: the handler is
\* sleeping after the third try of the first routine.
C17_Witness ==
    /\ CycleAllMode
    /\ Len(layout_list) = 3
    /\ pc = "err_sleeping"
    /\ calls = 3
    /\ returned = 0
    /\ lastSel = "routine_raised"
    /\ lastPick = layout_list[1]
    /\ cycle_num = 0

====
